---- MODULE Spec2Model ----
(***************************************************************************)
(* Model of the email processing pipeline of email_processing.py:          *)
(* process_email_pipeline (phase 1: sequential model inference in the main *)
(* process; phase 2: process_single_email tasks on a multiprocessing Pool) *)
(* and of the H2 store, the audit file and the error log they write to.    *)
(***************************************************************************)
EXTENDS Integers, Sequences, FiniteSets, TLC

(***************************************************************************)
(* Bounds of the model.                                                    *)
(***************************************************************************)
\* number of .eml files in the directory
NumFiles == 2
\* worker processes of the Pool (os.cpu_count() on the host)
PoolSize == 2
\* failures of the environment (I/O, collaborators, store) injected per run
MaxFaults == 1

Files == 1..NumFiles

\* the Python value None, where a record is expected and where a str is
None == [none |-> TRUE]
NoName == "None"

(***************************************************************************)
(* Text.  A str is a sequence of one-character strings.                    *)
(***************************************************************************)
NL == "\n"
Whitespace == {" ", NL}

\* code point of a character of the model's alphabet
CharCode(c) ==
  CASE c = "a" -> 1
    [] c = "b" -> 2
    [] c = " " -> 3
    [] c = NL -> 4
    [] OTHER -> 5

\* hashlib.md5(text.encode()).hexdigest(): a digest of the bytes of the text,
\* modelled as their positional encoding (no collisions on the alphabet)
RECURSIVE md5(_)
md5(text) ==
  IF text = <<>> THEN 1
  ELSE md5(SubSeq(text, 1, Len(text) - 1)) * 6 + CharCode(text[Len(text)])

\* str.split("\n\n"): cut at each non-overlapping occurrence, left to right
RECURSIVE SplitFrom(_, _, _, _)
SplitFrom(text, i, cur, acc) ==
  IF i > Len(text) THEN Append(acc, cur)
  ELSE IF i < Len(text) /\ text[i] = NL /\ text[i + 1] = NL
       THEN SplitFrom(text, i + 2, <<>>, Append(acc, cur))
       ELSE SplitFrom(text, i + 1, Append(cur, text[i]), acc)

split(text) == SplitFrom(text, 1, <<>>, <<>>)

\* truth value of segment.strip(): some character is not whitespace
strip_nonempty(segment) == \E i \in 1..Len(segment) : segment[i] \notin Whitespace

(***************************************************************************)
(* Static tables.                                                          *)
(***************************************************************************)
REQUEST_TYPES == <<"Payment Inquiry", "Loan Request", "Account Update">>

SUB_REQUEST_TYPES(request_type) ==
  CASE request_type = "Payment Inquiry" -> <<"Payment Confirmation", "Payment Delay">>
    [] request_type = "Loan Request" -> <<"Loan Status", "Loan Approval">>
    [] request_type = "Account Update" -> <<"Account Details", "Account Closure">>
    [] OTHER -> <<>>

\* ROUTING_RULES.get(request_type) with no default: None for an unknown type
ROUTING_RULES_no_default(request_type) ==
  CASE request_type = "Payment Inquiry" -> "Finance Team"
    [] request_type = "Loan Request" -> "Loan Processing Team"
    [] request_type = "Account Update" -> "Customer Support Team"
    [] OTHER -> NoName

ROUTING_RULES(request_type) ==
  CASE request_type = "Payment Inquiry" -> "Finance Team"
    [] request_type = "Loan Request" -> "Loan Processing Team"
    [] request_type = "Account Update" -> "Customer Support Team"
    [] OTHER -> "Default Team"

PRIORITY_RULES(request_type) ==
  CASE request_type = "Payment Inquiry" -> 3
    [] request_type = "Loan Request" -> 2
    [] request_type = "Account Update" -> 1
    [] OTHER -> 1

(***************************************************************************)
(* The messages of the directory.  A file is a subject and its MIME parts. *)
(***************************************************************************)
\* decodable: get_payload(decode=True).decode() succeeds on the part
TextPart(payload) ==
  [ctype |-> "text/plain", name |-> NoName, payload |-> payload, decodable |-> TRUE]
Attachment(name, payload) ==
  [ctype |-> "application/pdf", name |-> name, payload |-> payload, decodable |-> TRUE]
\* a text/plain part whose bytes are not UTF-8: .decode() raises on it
UndecodablePart(payload) ==
  [ctype |-> "text/plain", name |-> NoName, payload |-> payload, decodable |-> FALSE]

Messages ==
  { [subject |-> <<"a">>, parts |-> <<TextPart(<<"b">>)>>],
    [subject |-> <<"a", "b">>, parts |-> <<TextPart(<<>>)>>],
    [subject |-> <<"b">>, parts |-> <<TextPart(<<"a">>), Attachment("x", <<"a">>)>>] }

(***************************************************************************)
(* Collaborators: deterministic stand-ins for the two Hugging Face models. *)
(***************************************************************************)
\* CLASSIFIER(text, candidate_labels): labels by descending score; the winner
\* and its score (in percent) are a function of the text
CLASSIFIER(text, labels) ==
  LET k == (Len(text) % Len(labels)) + 1
  IN [labels |-> <<labels[k]>> \o SelectSeq(labels, LAMBDA l : l # labels[k]),
      scores |-> <<60 + Len(text)>> \o [i \in 1..(Len(labels) - 1) |-> 10]]

\* NER(text): the entities found in the text
NER(text) ==
  IF \E i \in 1..Len(text) : text[i] = "b"
  THEN <<[word |-> "b", entity |-> "B-PER"]>>
  ELSE <<>>

(***************************************************************************)
(* The stages, as functions of their inputs.                               *)
(***************************************************************************)
RECURSIVE BodyOf(_)
BodyOf(parts) ==
  IF parts = <<>> THEN <<>>
  ELSE (IF Head(parts).ctype = "text/plain" THEN Head(parts).payload ELSE <<>>)
       \o BodyOf(Tail(parts))

RECURSIVE AttachmentsOf(_)
AttachmentsOf(parts) ==
  IF parts = <<>> THEN <<>>
  ELSE (IF Head(parts).ctype # "text/plain" /\ Head(parts).name # NoName
        THEN <<Head(parts).name>> ELSE <<>>)
       \o AttachmentsOf(Tail(parts))

\* Step 1: None when open() fails or a text/plain part does not decode
extract_email_components(filepath, file, readable) ==
  IF ~readable
     \/ \E i \in 1..Len(file.parts) :
          file.parts[i].ctype = "text/plain" /\ ~file.parts[i].decodable
  THEN None
  ELSE [filename |-> filepath, subject |-> file.subject,
        body |-> BodyOf(file.parts), attachments |-> AttachmentsOf(file.parts)]

\* Step 2: the winning label, then the winning sub-label of its subset
classify_email_intent(email_data) ==
  LET text == email_data.subject \o <<" ">> \o email_data.body
      result == CLASSIFIER(text, REQUEST_TYPES)
      request_type == result.labels[1]
      sub_types == SUB_REQUEST_TYPES(request_type)
  IN [request_type |-> request_type,
      request_confidence |-> result.scores[1],
      sub_request_type |->
        IF sub_types # <<>> THEN CLASSIFIER(text, sub_types).labels[1] ELSE NoName,
      sub_request_confidence |->
        IF sub_types # <<>> THEN CLASSIFIER(text, sub_types).scores[1] ELSE 0]

\* Step 3: entities of the NER model; the model's alphabet has no digits, so
\* the amount and date patterns match nothing
extract_context(email_data) ==
  LET text == email_data.subject \o <<" ">> \o email_data.body
      entities == NER(text)
  IN [entities |-> [i \in 1..Len(entities) |->
                      [text |-> entities[i].word, label |-> entities[i].entity]],
      amounts |-> <<>>,
      dates |-> <<>>]

\* the segments of the body that are classified
Segments(email_data) == SelectSeq(split(email_data.body), strip_nonempty)

\* the last element of maximal confidence
LastMax(intents) ==
  LET i == CHOOSE k \in 1..Len(intents) :
             /\ \A j \in 1..Len(intents) : intents[j].confidence <= intents[k].confidence
             /\ \A j \in (k + 1)..Len(intents) : intents[j].confidence < intents[k].confidence
  IN intents[i]

\* max(intents, key=confidence): the first element of maximal confidence
FirstMax(intents) ==
  LET i == CHOOSE k \in 1..Len(intents) :
             /\ \A j \in 1..Len(intents) : intents[j].confidence <= intents[k].confidence
             /\ \A j \in 1..(k - 1) : intents[j].confidence < intents[k].confidence
  IN intents[i]

\* without `if segment.strip()`: empty segments are classified too
handle_multi_request_unfiltered(email_data, ok) ==
  LET segments == split(email_data.body)
      intents == [i \in 1..Len(segments) |->
                    [segment |-> segments[i],
                     request_type |-> CLASSIFIER(segments[i], REQUEST_TYPES).labels[1],
                     confidence |-> CLASSIFIER(segments[i], REQUEST_TYPES).scores[1]]]
  IN IF ~ok THEN [primary_intent |-> None, all_intents |-> <<>>]
     ELSE [primary_intent |-> IF intents # <<>> THEN FirstMax(intents) ELSE None,
           all_intents |-> intents]

\* Step 4: (primary_intent, intents); (None, []) when the classifier raises
handle_multi_request(email_data, ok) ==
  LET segments == Segments(email_data)
      intents == [i \in 1..Len(segments) |->
                    [segment |-> segments[i],
                     request_type |-> CLASSIFIER(segments[i], REQUEST_TYPES).labels[1],
                     confidence |-> CLASSIFIER(segments[i], REQUEST_TYPES).scores[1]]]
  IN IF ~ok THEN [primary_intent |-> None, all_intents |-> <<>>]
     ELSE [primary_intent |-> IF intents # <<>> THEN FirstMax(intents) ELSE None,
           all_intents |-> intents]

\* str.lower() on the characters of the alphabet
LowerChar(c) ==
  CASE c = "A" -> "a"
    [] c = "B" -> "b"
    [] c = "D" -> "d"
    [] c = "E" -> "e"
    [] c = "G" -> "g"
    [] c = "I" -> "i"
    [] c = "M" -> "m"
    [] c = "N" -> "n"
    [] c = "R" -> "r"
    [] c = "T" -> "t"
    [] c = "U" -> "u"
    [] OTHER -> c

lower(text) == [i \in 1..Len(text) |-> LowerChar(text[i])]

\* word in text
Contains(text, word) ==
  \E i \in 0..(Len(text) - Len(word)) :
    \A j \in 1..Len(word) : text[i + j] = word[j]

urgent == <<"u", "r", "g", "e", "n", "t">>
immediate == <<"i", "m", "m", "e", "d", "i", "a", "t", "e">>

\* one more for each keyword found
assign_priority_and_confidence_per_keyword(intent, email_data) ==
  LET text == lower(email_data.body)
      base == PRIORITY_RULES(intent.request_type)
  IN [request_type |-> intent.request_type,
      confidence |-> intent.request_confidence,
      priority |-> base + (IF Contains(text, urgent) THEN 1 ELSE 0)
                        + (IF Contains(text, immediate) THEN 1 ELSE 0)]

\* Step 5
assign_priority_and_confidence(intent, email_data) ==
  LET text == lower(email_data.body)
      base == PRIORITY_RULES(intent.request_type)
  IN [request_type |-> intent.request_type,
      confidence |-> intent.request_confidence,
      priority |-> IF Contains(text, urgent) \/ Contains(text, immediate)
                   THEN base + 1 ELSE base]

\* the names of the attachments are hashed too
compute_email_hash_with_attachments(email_data) ==
  md5(email_data.subject \o email_data.body \o email_data.attachments)

\* Step 6
compute_email_hash(email_data) == md5(email_data.subject \o email_data.body)

\* the row of the INSERT of store_email_data
Row(email_data, intent, context, email_hash) ==
  [filename |-> email_data.filename,
   request_type |-> intent.request_type,
   sub_request_type |-> intent.sub_request_type,
   confidence |-> intent.request_confidence,
   context |-> context,
   email_hash |-> email_hash]

\* Step 8: SELECT COUNT(*) ... WHERE email_hash = ? over the rows the
\* connection sees; False when the query raises
detect_duplicates(visible, email_hash, ok) ==
  IF ~ok THEN FALSE
  ELSE Cardinality({i \in 1..Len(visible) : visible[i].email_hash = email_hash}) > 0

\* Step 10: result['routing'] = {'team': team}
route_request(result) ==
  [k \in DOMAIN result \cup {"routing"} |->
     IF k = "routing" THEN [team |-> ROUTING_RULES(result.intent.request_type)]
     ELSE result[k]]

(***************************************************************************)
(* State.                                                                  *)
(***************************************************************************)
VARIABLES
  mail,               \* the message stored in each file of the directory
  prior,              \* history: number of rows committed before this run
  store,              \* committed rows of table emails, in commit order
  audit,              \* lines of classification_log.txt
  log,                \* error events of email_processing.log
  pc,                 \* position of process_email_pipeline
  filepaths,          \* the .eml files listed
  idx,                \* position of the phase-1 loop in filepaths
  stage,              \* next stage of the message at idx
  loc,                \* loop locals email_data, intent, context
  phase1,             \* per file: pending, running, preprocessed, skipped
  preprocessed_data,  \* argument tuples of the phase-2 tasks
  next_task,          \* next tuple the pool hands to a worker
  tpc,                \* per file: position of its process_single_email task
  task,               \* per file: locals of its task
  conn,               \* per file: state of the task's connection
  pending,            \* per file: rows inserted on the connection, not committed
  ret,                \* per file: value returned by its task
  seen,               \* history, per file: a row with the task's hash was
                      \* committed when its existence check ran
  results,            \* the aggregated output batch
  returned,           \* value returned by process_email_pipeline
  results_json,       \* content of results.json
  calls,              \* history: stage calls that ended, with the file and the caller
  faults,             \* failures injected so far
  given,              \* a stage function called on its own: function, arguments
  got                 \* the value that call returned

vars == <<mail, prior, seen, store, audit, log, pc, filepaths, idx, stage, loc, phase1,
          preprocessed_data, next_task, tpc, task, conn, pending, ret, results,
          returned, results_json, calls, faults, given, got>>

\* an error event of the log: the files its message names, and the function
\* whose except clause wrote it
Event(files, fn) == [files |-> files, fn |-> fn]

\* a call of a stage function: by the main process or by a pool worker
Call(fn, f, caller) == [fn |-> fn, file |-> f, caller |-> caller]

\* the rows an earlier fault-free run over the first k files has committed
\* (the upload folder keeps its files from one run to the next)
RECURSIVE PriorRows(_, _)
PriorRows(m, k) ==
  IF k = 0 THEN <<>>
  ELSE LET email_data == extract_email_components(k, m[k], TRUE)
       IN Append(PriorRows(m, k - 1),
                 Row(email_data, classify_email_intent(email_data),
                     extract_context(email_data), compute_email_hash(email_data)))

NoLocals == [email_data |-> None, intent |-> None, context |-> None]
NoTask == [scored_intent |-> None, email_hash |-> 0, is_duplicate |-> FALSE,
           result |-> None]

\* process_email_pipeline has not started, no task exists
Fresh ==
  /\ seen = [f \in Files |-> FALSE]
  /\ audit = <<>>
  /\ log = {}
  /\ pc = "start"
  /\ filepaths = <<>>
  /\ idx = 1
  /\ stage = "extract"
  /\ loc = NoLocals
  /\ phase1 = [f \in Files |-> "pending"]
  /\ preprocessed_data = <<>>
  /\ next_task = 1
  /\ tpc = [f \in Files |-> "idle"]
  /\ task = [f \in Files |-> NoTask]
  /\ conn = [f \in Files |-> "none"]
  /\ pending = [f \in Files |-> <<>>]
  /\ ret = [f \in Files |-> None]
  /\ results = <<>>
  /\ returned = <<>>
  /\ results_json = <<>>
  /\ calls = {}
  /\ faults = 0

\* the first file listed holds the message (a, b); each other file holds
\* any of the messages: the same one, one that differs and has the same
\* subject + body, or one with another subject + body
Init ==
  /\ mail \in [Files -> Messages]
  /\ mail[1].subject = <<"a">>
  /\ \E k \in {0, NumFiles} : store = PriorRows(mail, k)
  /\ prior = Len(store)
  /\ Fresh
  /\ given = None
  /\ got = None

\* a call returns normally (ok) or raises; at most MaxFaults calls raise
Outcome(ok) ==
  /\ ok \/ faults < MaxFaults
  /\ faults' = IF ok THEN faults ELSE faults + 1

p2vars == <<next_task, tpc, task, conn, pending, ret, seen>>
outvars == <<results, returned, results_json>>

(***************************************************************************)
(* process_email_pipeline: listing and phase 1 (main process).             *)
(***************************************************************************)
\* the except clause around the listing only: the run goes on with no file
ListDirFallsThrough(ok) ==
  /\ pc = "start"
  /\ Outcome(ok)
  /\ filepaths' = IF ok THEN [i \in 1..NumFiles |-> i] ELSE <<>>
  /\ log' = IF ok THEN log ELSE log \cup {Event({}, "process_email_pipeline")}
  /\ pc' = "phase1"
  /\ UNCHANGED <<given, got, mail, prior, store, audit, idx, stage, loc, phase1,
                 preprocessed_data, p2vars, outvars, calls>>

\* os.listdir(directory), filtered on ".eml"; raising ends the run with []
ListDir(ok) ==
  /\ pc = "start"
  /\ Outcome(ok)
  /\ IF ok
     THEN /\ filepaths' = [i \in 1..NumFiles |-> i]
          /\ pc' = "phase1"
          /\ UNCHANGED <<log, returned>>
     ELSE /\ log' = log \cup {Event({}, "process_email_pipeline")}
          /\ returned' = <<>>
          /\ pc' = "done"
          /\ UNCHANGED filepaths
  /\ UNCHANGED <<given, got, mail, prior, store, audit, idx, stage, loc, phase1, preprocessed_data,
                 p2vars, results, results_json, calls>>

\* the file the phase-1 loop is at
Current == filepaths[idx]

\* `break` in place of `continue`: the loop is left
SkipLeavesLoop(f) ==
  /\ phase1' = [phase1 EXCEPT ![f] = "skipped"]
  /\ idx' = Len(filepaths) + 1
  /\ stage' = "extract"
  /\ loc' = NoLocals

\* `continue`: the message is skipped, the loop goes to the next file
Skip(f) ==
  /\ phase1' = [phase1 EXCEPT ![f] = "skipped"]
  /\ idx' = idx + 1
  /\ stage' = "extract"
  /\ loc' = NoLocals

Extract(readable) ==
  /\ pc = "phase1" /\ idx <= Len(filepaths) /\ stage = "extract"
  /\ Outcome(readable)
  /\ calls' = calls \cup {Call("extract_email_components", Current, "main")}
  /\ LET email_data == extract_email_components(Current, mail[Current], readable)
     IN IF email_data = None
        THEN /\ log' = log \cup {Event({Current}, "extract_email_components")}
             /\ Skip(Current)
        ELSE /\ loc' = [loc EXCEPT !.email_data = email_data]
             /\ phase1' = [phase1 EXCEPT ![Current] = "running"]
             /\ stage' = "classify"
             /\ UNCHANGED <<log, idx>>
  /\ UNCHANGED <<given, got, mail, prior, store, audit, pc, filepaths, preprocessed_data, p2vars,
                 outvars>>

Classify(ok) ==
  /\ pc = "phase1" /\ idx <= Len(filepaths) /\ stage = "classify"
  /\ Outcome(ok)
  /\ calls' = calls \cup {Call("classify_email_intent", Current, "main")}
  /\ IF ok
     THEN /\ loc' = [loc EXCEPT !.intent = classify_email_intent(loc.email_data)]
          /\ stage' = "context"
          /\ UNCHANGED <<log, idx, phase1>>
     ELSE /\ log' = log \cup {Event({Current}, "classify_email_intent")}
          /\ Skip(Current)
  /\ UNCHANGED <<given, got, mail, prior, store, audit, pc, filepaths, preprocessed_data, p2vars,
                 outvars>>

Context(ok) ==
  /\ pc = "phase1" /\ idx <= Len(filepaths) /\ stage = "context"
  /\ Outcome(ok)
  /\ calls' = calls \cup {Call("extract_context", Current, "main")}
  /\ IF ok
     THEN /\ loc' = [loc EXCEPT !.context = extract_context(loc.email_data)]
          /\ stage' = "multi"
          /\ UNCHANGED <<log, idx, phase1>>
     ELSE /\ log' = log \cup {Event({Current}, "extract_context")}
          /\ Skip(Current)
  /\ UNCHANGED <<given, got, mail, prior, store, audit, pc, filepaths, preprocessed_data, p2vars,
                 outvars>>

\* handle_multi_request, then preprocessed_data.append(...); the classifier
\* is called, and so can raise, only when the body has a non-empty segment
MultiRequest(ok) ==
  /\ pc = "phase1" /\ idx <= Len(filepaths) /\ stage = "multi"
  /\ ok \/ Segments(loc.email_data) # <<>>
  /\ Outcome(ok)
  /\ calls' = calls \cup {Call("handle_multi_request", Current, "main")}
  /\ log' = IF ok THEN log
            ELSE log \cup {Event({Current}, "handle_multi_request")}
  /\ LET multi == handle_multi_request(loc.email_data, ok)
     IN preprocessed_data' =
          Append(preprocessed_data,
                 [filepath |-> Current, email_data |-> loc.email_data,
                  intent |-> loc.intent, context |-> loc.context,
                  primary_intent |-> multi.primary_intent,
                  all_intents |-> multi.all_intents])
  /\ phase1' = [phase1 EXCEPT ![Current] = "preprocessed"]
  /\ idx' = idx + 1
  /\ stage' = "extract"
  /\ loc' = NoLocals
  /\ UNCHANGED <<given, got, mail, prior, store, audit, pc, filepaths, p2vars, outvars>>

\* CLASSIFIER or NER never returns (no timeout is set on the calls): the
\* main process stays inside the stage it is at.  calls records a call when
\* it ends, so this one is not recorded
Hang ==
  /\ pc = "phase1" /\ idx <= Len(filepaths)
  /\ stage \in {"classify", "context", "multi"}
  /\ stage = "multi" => Segments(loc.email_data) # <<>>
  /\ stage' = "hung"
  /\ UNCHANGED <<given, got, mail, prior, store, audit, log, pc, filepaths, idx, loc,
                 phase1, preprocessed_data, p2vars, outvars, calls, faults>>

\* the pool is started as soon as one tuple is ready
Phase1DoneEarly == preprocessed_data # <<>>

\* a stage that does not return is given up: the loop is taken as over
Phase1DoneOrHung == idx > Len(filepaths) \/ stage = "hung"

\* the for loop of phase 1 has gone through every file
Phase1Done == idx > Len(filepaths)

\* with Pool() as pool: pool.map(process_single_email, preprocessed_data)
StartPool ==
  /\ pc = "phase1"
  /\ Phase1Done
  /\ pc' = "pool"
  /\ UNCHANGED <<given, got, mail, prior, store, audit, log, filepaths, idx, stage, loc, phase1,
                 preprocessed_data, p2vars, outvars, calls, faults>>

(***************************************************************************)
(* Phase 2: one process_single_email task per tuple, on the pool workers.  *)
(* The workers are processes: they share the store, the audit file and the *)
(* log, nothing else.  The statements of a task that touch only its own    *)
(* locals and connection are taken in one step with the next statement     *)
(* that reads or writes shared state.                                      *)
(***************************************************************************)
Running == {f \in Files : tpc[f] \notin {"idle", "returned"}}

\* the argument tuple of the task of file f
Args(f) ==
  LET i == CHOOSE k \in 1..Len(preprocessed_data) : preprocessed_data[k].filepath = f
  IN preprocessed_data[i]

\* the failure of one task ends the tasks that are running
ReturnNoneAbortsSiblings(f) ==
  /\ ret' = [g \in Files |-> IF g = f \/ g \in Running THEN None ELSE ret[g]]
  /\ tpc' = [g \in Files |-> IF g = f \/ g \in Running THEN "returned" ELSE tpc[g]]

\* `return None` of the task
ReturnNone(f) ==
  /\ ret' = [ret EXCEPT ![f] = None]
  /\ tpc' = [tpc EXCEPT ![f] = "returned"]

\* a free worker takes the next tuple of the map and starts the task:
\* assign_priority_and_confidence, compute_email_hash, setup_h2_database.
\* setup_h2_database returns (None, None) when the connection cannot be
\* opened; its error message does not name the file of the task
Begin(ok) ==
  /\ pc = "pool"
  /\ next_task <= Len(preprocessed_data)
  /\ Cardinality(Running) < PoolSize
  /\ Outcome(ok)
  /\ LET args == preprocessed_data[next_task]
         f == args.filepath
     IN /\ calls' = calls \cup {Call("assign_priority_and_confidence", f, "worker"),
                                Call("compute_email_hash", f, "worker"),
                                Call("setup_h2_database", f, "worker")}
        /\ task' = [task EXCEPT
                      ![f].scored_intent =
                        assign_priority_and_confidence(args.intent, args.email_data),
                      ![f].email_hash = compute_email_hash(args.email_data)]
        /\ IF ok
           THEN /\ conn' = [conn EXCEPT ![f] = "open"]
                /\ tpc' = [tpc EXCEPT ![f] = "detect"]
                /\ UNCHANGED <<log, ret>>
           ELSE /\ log' = log \cup {Event({}, "setup_h2_database")}
                /\ ReturnNone(f)
                /\ UNCHANGED conn
  /\ next_task' = next_task + 1
  /\ UNCHANGED <<given, got, mail, prior, store, audit, pc, filepaths, idx, stage, loc, phase1,
                 preprocessed_data, pending, seen, outvars>>

\* the rows of every connection, committed or not
RECURSIVE AllPending(_)
AllPending(k) == IF k = 0 THEN <<>> ELSE AllPending(k - 1) \o pending[k]
VisibleUncommitted(f) == store \o AllPending(NumFiles)

\* the rows the connection of task f reads: the committed rows and its own
Visible(f) == store \o pending[f]

\* the result dict of the task, before routing
Result(f, is_duplicate) ==
  [filename |-> Args(f).email_data.filename,
   intent |-> task[f].scored_intent,
   context |-> Args(f).context,
   is_duplicate |-> is_duplicate,
   all_intents |-> Args(f).all_intents]

\* detect_duplicates (okq: the SELECT succeeds), then store_email_data (oki:
\* the INSERT succeeds; its except clause logs and returns normally), then
\* the result dict is built and route_request(result) adds the team
Detect(f, okq, oki) ==
  /\ tpc[f] = "detect"
  /\ faults + (IF okq THEN 0 ELSE 1) + (IF oki THEN 0 ELSE 1) <= MaxFaults
  /\ faults' = faults + (IF okq THEN 0 ELSE 1) + (IF oki THEN 0 ELSE 1)
  /\ calls' = calls \cup {Call("detect_duplicates", f, "worker"),
                          Call("store_email_data", f, "worker"),
                          Call("route_request", f, "worker")}
  /\ log' = log \cup (IF okq THEN {} ELSE {Event({f}, "detect_duplicates")})
                \cup (IF oki THEN {} ELSE {Event({f}, "store_email_data")})
  /\ pending' = IF oki
                THEN [pending EXCEPT ![f] =
                        Append(@, Row(Args(f).email_data, Args(f).intent,
                                      Args(f).context, task[f].email_hash))]
                ELSE pending
  /\ LET is_duplicate == detect_duplicates(Visible(f), task[f].email_hash, okq)
     IN task' = [task EXCEPT ![f].is_duplicate = is_duplicate,
                             ![f].result = route_request(Result(f, is_duplicate))]
  /\ seen' = [seen EXCEPT ![f] =
                 \E i \in 1..Len(store) : store[i].email_hash = task[f].email_hash]
  /\ tpc' = [tpc EXCEPT ![f] = "audit"]
  /\ UNCHANGED <<given, got, mail, prior, store, audit, pc, filepaths, idx, stage, loc, phase1,
                 preprocessed_data, next_task, conn, ret, outvars>>

\* log_classification_decision: one line appended to classification_log.txt;
\* its except clause logs and returns normally
Audit(f, ok) ==
  /\ tpc[f] = "audit"
  /\ Outcome(ok)
  /\ calls' = calls \cup {Call("log_classification_decision", f, "worker")}
  /\ IF ok
     THEN /\ audit' = Append(audit, [filename |-> task[f].result.filename,
                                     intent |-> task[f].result.intent.request_type,
                                     confidence |-> task[f].result.intent.confidence])
          /\ UNCHANGED log
     ELSE /\ log' = log \cup {Event({f}, "log_classification_decision")}
          /\ UNCHANGED audit
  /\ tpc' = [tpc EXCEPT ![f] = "commit"]
  /\ UNCHANGED <<given, got, mail, prior, store, pc, filepaths, idx, stage, loc, phase1,
                 preprocessed_data, next_task, task, conn, pending, ret, seen, outvars>>

\* conn.commit() (okc), conn.close() (okx), `return result`; either raising
\* goes to the except clause of process_single_email, which returns None
Commit(f, okc, okx) ==
  /\ tpc[f] = "commit"
  /\ okc \/ okx
  /\ Outcome(okc /\ okx)
  /\ IF okc
     THEN /\ store' = store \o pending[f]
          /\ pending' = [pending EXCEPT ![f] = <<>>]
     ELSE UNCHANGED <<store, pending>>
  /\ IF okc /\ okx
     THEN /\ conn' = [conn EXCEPT ![f] = "closed"]
          /\ ret' = [ret EXCEPT ![f] = task[f].result]
          /\ tpc' = [tpc EXCEPT ![f] = "returned"]
          /\ UNCHANGED log
     ELSE /\ log' = log \cup {Event({f}, "process_single_email")}
          /\ ReturnNone(f)
          /\ UNCHANGED conn
  /\ UNCHANGED <<given, got, mail, prior, audit, pc, filepaths, idx, stage, loc, phase1,
                 preprocessed_data, next_task, task, seen, outvars, calls>>

(***************************************************************************)
(* process_email_pipeline: aggregation and output.                         *)
(***************************************************************************)
KeptFresh(r) == r # None /\ ~r.is_duplicate

\* r is not None
Kept(r) == r # None

\* the values are collected in the order the tasks committed
CollectInCommitOrder ==
  /\ pc = "pool"
  /\ next_task > Len(preprocessed_data)
  /\ Running = {}
  /\ results' = SelectSeq([i \in 1..(Len(store) - prior) |->
                             ret[store[prior + i].filename]], Kept)
  /\ pending' = [f \in Files |-> <<>>]
  /\ pc' = "write"
  /\ UNCHANGED <<given, got, mail, prior, store, audit, log, filepaths, idx, stage, loc,
                 phase1, preprocessed_data, next_task, tpc, task, conn, ret, seen,
                 returned, results_json, calls, faults>>

\* pool.map returns the tasks' values in the order of the tuples; the pool
\* is torn down, which rolls back what a task inserted and did not commit
Collect ==
  /\ pc = "pool"
  /\ next_task > Len(preprocessed_data)
  /\ Running = {}
  /\ results' = SelectSeq([i \in 1..Len(preprocessed_data) |->
                             ret[preprocessed_data[i].filepath]], Kept)
  /\ pending' = [f \in Files |-> <<>>]
  /\ pc' = "write"
  /\ UNCHANGED <<given, got, mail, prior, store, audit, log, filepaths, idx, stage, loc, phase1,
                 preprocessed_data, next_task, tpc, task, conn, ret, seen, returned,
                 results_json, calls, faults>>

\* a failed write undoes the batch: its rows and its audit lines are removed
WriteRollsBack(ok) ==
  /\ pc = "write"
  /\ Outcome(ok)
  /\ IF ok
     THEN /\ results_json' = results
          /\ returned' = results
          /\ UNCHANGED <<log, store, audit>>
     ELSE /\ log' = log \cup {Event({}, "process_email_pipeline")}
          /\ returned' = <<>>
          /\ store' = SubSeq(store, 1, prior)
          /\ audit' = <<>>
          /\ UNCHANGED results_json
  /\ pc' = "done"
  /\ UNCHANGED <<given, got, mail, prior, filepaths, idx, stage, loc, phase1,
                 preprocessed_data, p2vars, results, calls>>

\* json.dump(results) to results.json; raising makes the run return []
Write(ok) ==
  /\ pc = "write"
  /\ Outcome(ok)
  /\ IF ok
     THEN /\ results_json' = results
          /\ returned' = results
          /\ UNCHANGED log
     ELSE /\ log' = log \cup {Event({}, "process_email_pipeline")}
          /\ returned' = <<>>
          /\ UNCHANGED results_json
  /\ pc' = "done"
  /\ UNCHANGED <<given, got, mail, prior, store, audit, filepaths, idx, stage, loc, phase1,
                 preprocessed_data, p2vars, results, calls>>

Next ==
  \/ \E ok \in BOOLEAN : ListDir(ok)
  \/ \E readable \in BOOLEAN : Extract(readable)
  \/ \E ok \in BOOLEAN : Classify(ok)
  \/ \E ok \in BOOLEAN : Context(ok)
  \/ \E ok \in BOOLEAN : MultiRequest(ok)
  \/ Hang
  \/ StartPool
  \/ \E ok \in BOOLEAN : Begin(ok)
  \/ \E f \in Files, okq \in BOOLEAN, oki \in BOOLEAN : Detect(f, okq, oki)
  \/ \E f \in Files, ok \in BOOLEAN : Audit(f, ok)
  \/ \E f \in Files, okc \in BOOLEAN, okx \in BOOLEAN : Commit(f, okc, okx)
  \/ Collect
  \/ \E ok \in BOOLEAN : Write(ok)

Spec == Init /\ [][Next]_vars

\* a first run, on an empty store, over a directory whose files all hold
\* the same message, one with a body
InitFirstRun ==
  /\ Init
  /\ prior = 0
  /\ \A f \in Files : mail[f].subject = <<"a">>

\* every worker and the main process keep taking steps: the calls of phase 2
\* return or raise, the operating system schedules every process
FairSpec == InitFirstRun /\ [][Next]_vars /\ WF_vars(Next)

(***************************************************************************)
(* The stage functions called on their own, on arguments the two models of *)
(* the pipeline never produce: categories outside REQUEST_TYPES, bodies of *)
(* several segments, the two keywords, parts that do not decode.           *)
(***************************************************************************)
Categories == {REQUEST_TYPES[i] : i \in 1..Len(REQUEST_TYPES)} \cup {"Complaint"}

StageFiles ==
  Messages \cup
  { [subject |-> <<"a">>, parts |-> <<UndecodablePart(<<"b">>)>>],
    [subject |-> <<"a">>,
     parts |-> <<TextPart(<<"a">>), UndecodablePart(<<"b">>), TextPart(<<"b">>)>>],
    [subject |-> <<"a">>, parts |-> <<TextPart(<<"a">>), TextPart(<<"b">>)>>],
    [subject |-> <<>>, parts |-> <<TextPart(<<"b">>)>>],
    [subject |-> <<"a">>, parts |-> <<Attachment(NoName, <<"a">>)>>],
    [subject |-> <<"a">>, parts |-> <<Attachment("x", <<"a">>), UndecodablePart(<<>>)>>] }

\* bodies of zero, one, two and three paragraphs
SegmentBodies ==
  { <<>>,
    <<"a">>,
    <<"a", NL, NL, "b">>,
    <<"a", NL, NL, "a", "b">>,
    <<"a", "b", NL, NL, "a">>,
    <<"a", NL, NL, "b", NL, NL, NL>>,
    <<NL, NL>>,
    <<" ", NL, NL, " ">>,
    <<"a", NL, NL, "a", "b", NL, NL, "b", "a">> }

\* bodies with and without the two keywords
KeywordBodies ==
  { <<>>,
    <<"b">>,
    urgent,
    immediate,
    <<"U", "R", "G", "E", "N", "T">>,
    <<"I">> \o Tail(immediate),
    urgent \o <<" ">> \o immediate,
    <<"a">> \o urgent \o <<"b">>,
    SubSeq(urgent, 1, Len(urgent) - 1) }

EmailData(filename, subject, body, attachments) ==
  [filename |-> filename, subject |-> subject, body |-> body,
   attachments |-> attachments]

\* the records whose fingerprints are compared
HashRecords ==
  { EmailData(f, subject, body, attachments) :
      f \in Files, subject \in {<<"a">>, <<"a", "b">>}, body \in {<<>>, <<"b">>},
      attachments \in {<<>>, <<"x">>} }

\* the calls: a function and its arguments
StageCalls ==
  { [fn |-> "extract_email_components", filepath |-> f, file |-> file,
     readable |-> readable] :
      f \in {1}, file \in StageFiles, readable \in BOOLEAN }
  \cup
  { c \in { [fn |-> "handle_multi_request",
             email_data |-> EmailData(f, <<"a">>, body, <<>>), ok |-> ok] :
              f \in {1}, body \in SegmentBodies, ok \in BOOLEAN } :
      c.ok \/ Segments(c.email_data) # <<>> }
  \cup
  { [fn |-> "assign_priority_and_confidence",
     intent |-> [request_type |-> category,
                 request_confidence |-> 60 + Len(subject),
                 sub_request_type |-> NoName, sub_request_confidence |-> 0],
     email_data |-> EmailData(1, subject, body, <<>>)] :
      category \in Categories, subject \in {<<"a">>, urgent}, body \in KeywordBodies }
  \cup
  { [fn |-> "compute_email_hash", email_data |-> e, other |-> o] :
      e \in HashRecords, o \in HashRecords }
  \cup
  { [fn |-> "route_request",
     result |-> [filename |-> f,
                 intent |-> [request_type |-> category, confidence |-> 60,
                             priority |-> PRIORITY_RULES(category)],
                 context |-> [entities |-> <<>>, amounts |-> <<>>, dates |-> <<>>],
                 is_duplicate |-> is_duplicate,
                 all_intents |-> <<>>]] :
      f \in {1}, category \in Categories, is_duplicate \in BOOLEAN }

\* one call is about to be made; the pipeline is not running
StageInit ==
  /\ given \in StageCalls
  /\ got = None
  /\ mail = [f \in Files |-> CHOOSE m \in Messages : m.subject = <<"a">>]
  /\ store = <<>>
  /\ prior = 0
  /\ Fresh

pipevars == <<mail, prior, seen, store, audit, log, pc, filepaths, idx, stage, loc,
              phase1, preprocessed_data, next_task, tpc, task, conn, pending, ret,
              results, returned, results_json, calls, faults>>

CallExtract ==
  /\ given.fn = "extract_email_components" /\ got = None
  /\ got' = [value |-> extract_email_components(given.filepath, given.file,
                                                given.readable)]
  /\ UNCHANGED <<given, pipevars>>

CallMultiRequest ==
  /\ given.fn = "handle_multi_request" /\ got = None
  /\ got' = [value |-> handle_multi_request(given.email_data, given.ok)]
  /\ UNCHANGED <<given, pipevars>>

CallPriority ==
  /\ given.fn = "assign_priority_and_confidence" /\ got = None
  /\ got' = [value |-> assign_priority_and_confidence(given.intent, given.email_data)]
  /\ UNCHANGED <<given, pipevars>>

\* two calls, one on each record
CallHash ==
  /\ given.fn = "compute_email_hash" /\ got = None
  /\ got' = [value |-> <<compute_email_hash(given.email_data),
                         compute_email_hash(given.other)>>]
  /\ UNCHANGED <<given, pipevars>>

CallRoute ==
  /\ given.fn = "route_request" /\ got = None
  /\ got' = [value |-> route_request(given.result)]
  /\ UNCHANGED <<given, pipevars>>

StageNext ==
  \/ CallExtract
  \/ CallMultiRequest
  \/ CallPriority
  \/ CallHash
  \/ CallRoute

StageSpec == StageInit /\ [][StageNext]_vars

\* the call of function fn has returned
Returned(fn) == given.fn = fn /\ got # None

(***************************************************************************)
(* Vocabulary of the properties.                                           *)
(***************************************************************************)
\* the message of file f is in the output batch
InBatch(f) == \E i \in 1..Len(results) : results[i].filename = f

\* the entry of file f in the output batch
Entry(f) == results[CHOOSE i \in 1..Len(results) : results[i].filename = f]

\* the rows this run has committed
RunRows == SubSeq(store, prior + 1, Len(store))

\* the rows this run has committed for file f with fingerprint h
RowsFor(f, h) ==
  {i \in 1..Len(RunRows) : RunRows[i].filename = f /\ RunRows[i].email_hash = h}

\* the task of file f has run its existence check and its insert
PastDetect(f) ==
  tpc[f] \in {"audit", "commit"} \/ (tpc[f] = "returned" /\ conn[f] # "none")

\* the log holds an error event of function fn that names file f
Logged(f, fn) == Event({f}, fn) \in log

\* the output batch has been aggregated
Aggregated == pc \in {"write", "done"}

(***************************************************************************)
(* C1. Dedup race.  Two tasks of one batch whose messages have the same    *)
(* fingerprint, and whose existence checks both ran while no row with that *)
(* fingerprint was committed, both get is_duplicate = false, in the task   *)
(* and in the result it returns; the interleaving in which both do so and  *)
(* both rows are inserted and committed is reachable (C1_Witness).         *)
(***************************************************************************)
C1_RaceWindow ==
  \A f, g \in Files :
    (/\ f # g
     /\ PastDetect(f) /\ PastDetect(g)
     /\ task[f].email_hash = task[g].email_hash
     /\ ~seen[f] /\ ~seen[g])
    => /\ ~task[f].is_duplicate /\ ~task[g].is_duplicate
       /\ ret[f] # None => ~ret[f].is_duplicate
       /\ ret[g] # None => ~ret[g].is_duplicate

C1_Witness ==
  /\ pc = "done"
  /\ \E f, g \in Files :
       /\ f # g
       /\ InBatch(f) /\ InBatch(g)
       /\ task[f].email_hash = task[g].email_hash
       /\ \A i \in 1..prior : store[i].email_hash # task[f].email_hash
       /\ ~Logged(f, "detect_duplicates") /\ ~Logged(g, "detect_duplicates")
       /\ ~Entry(f).is_duplicate /\ ~Entry(g).is_duplicate
       /\ RowsFor(f, task[f].email_hash) # {}
       /\ RowsFor(g, task[g].email_hash) # {}

(***************************************************************************)
(* C2. Dedup correctness, sequential case.  The existence check of a task  *)
(* returns true exactly when a row with the task's fingerprint was         *)
(* committed before the check ran (by an earlier run or by this one), and  *)
(* the result the task returns carries the same value.                     *)
(***************************************************************************)
C2_SequentialDedup ==
  \A f \in Files :
    PastDetect(f) =>
      /\ task[f].is_duplicate = seen[f]
      /\ ret[f] # None => ret[f].is_duplicate = seen[f]

C4_OneRowPerMessage ==
  pc = "done" =>
    \A f \in Files :
      InBatch(f) => Cardinality(RowsFor(f, task[f].email_hash)) = 1

\* the store only grows: every step keeps the committed rows as a prefix
C4_AppendOnly ==
  [][/\ Len(store') >= Len(store)
     /\ SubSeq(store', 1, Len(store)) = store]_vars

(***************************************************************************)
(* C5. Store failures drop the message.  Once the batch is aggregated, a   *)
(* message whose task could not open the store connection, or whose INSERT *)
(* raised, is absent from the output batch and its error is in the log.    *)
(***************************************************************************)
ConnectFailed(f) ==
  /\ Call("setup_h2_database", f, "worker") \in calls
  /\ conn[f] = "none"
  /\ tpc[f] = "returned"

\* C5: a failed connection or a failed INSERT leaves the message out of the
\* output batch, with its error logged
C5_StoreFailureDrops ==
  Aggregated =>
    \A f \in Files :
      /\ ConnectFailed(f) =>
           ~InBatch(f) /\ Event({}, "setup_h2_database") \in log
      /\ Logged(f, "store_email_data") => ~InBatch(f)

(***************************************************************************)
(* C6. Skip on phase-1 failure.  A message whose extraction,               *)
(* classification or context extraction failed is skipped: no stage after  *)
(* the failing one is called for it, it gets no phase-2 task, it is not in *)
(* the output batch; and the loop still goes through the other files: when *)
(* phase 1 is over no listed file is left unprocessed.                     *)
(***************************************************************************)
Phase1Stages ==
  <<"extract_email_components", "classify_email_intent", "extract_context",
    "handle_multi_request">>

\* phase-1 stage number k failed for file f
FailedAt(f, k) == k \in 1..3 /\ Logged(f, Phase1Stages[k])

Listed == {filepaths[i] : i \in 1..Len(filepaths)}

\* C6: a phase-1 failure skips the message and only the message
C6_SkipOnPhase1Failure ==
  /\ \A f \in Files :
       /\ \A k \in 1..3 :
            FailedAt(f, k) =>
              /\ phase1[f] = "skipped"
              /\ \A j \in 1..4 :
                   Call(Phase1Stages[j], f, "main") \in calls <=> j <= k
              /\ \A c \in calls : c.file = f => c.caller = "main"
              /\ tpc[f] = "idle"
              /\ \A i \in 1..Len(preprocessed_data) :
                   preprocessed_data[i].filepath # f
              /\ ~InBatch(f)
       /\ phase1[f] = "skipped" => \E k \in 1..3 : FailedAt(f, k)
  /\ pc \in {"pool", "write"} \/ (pc = "done" /\ Listed # {}) =>
       \A g \in Files : phase1[g] \in {"skipped", "preprocessed"}

C6_Witness ==
  /\ pc = "done"
  /\ \E f, g \in Files :
       /\ phase1[f] = "skipped"
       /\ filepaths[1] = f
       /\ InBatch(g)

(***************************************************************************)
(* C7. Absent primary intent is tolerated.  A message that passed          *)
(* extraction, classification and context extraction is never skipped:     *)
(* after handle_multi_request it is a tuple of preprocessed_data, with     *)
(* primary_intent None and all_intents empty when its body has no          *)
(* non-empty segment; it gets a phase-2 task before the batch is           *)
(* aggregated, and it is in the output batch when its task committed and   *)
(* closed.                                                                 *)
(***************************************************************************)
C7_AbsentPrimaryTolerated ==
  \A f \in Files :
    Call("handle_multi_request", f, "main") \in calls =>
      /\ phase1[f] = "preprocessed"
      /\ \E i \in 1..Len(preprocessed_data) : preprocessed_data[i].filepath = f
      /\ Segments(Args(f).email_data) = <<>> =>
           Args(f).primary_intent = None /\ Args(f).all_intents = <<>>
      /\ Aggregated => tpc[f] = "returned"
      /\ (Aggregated /\ conn[f] = "closed") => InBatch(f)

C7_Witness ==
  /\ pc = "done"
  /\ \E f \in Files :
       /\ InBatch(f)
       /\ Segments(Args(f).email_data) = <<>>
       /\ Args(f).primary_intent = None
       /\ Entry(f).all_intents = <<>>

(***************************************************************************)
(* C8. Sibling isolation in phase 2.  A task returns None only for a       *)
(* failure of its own (its connection could not be opened, or its commit   *)
(* or close raised), and then its message is not in the output batch;      *)
(* every message whose task returned a result is in the output batch; and  *)
(* when workers and main process keep taking steps, every started task     *)
(* returns and the run that reached the pool ends.                         *)
(***************************************************************************)
Started(f) == tpc[f] # "idle"

OwnFailure(f) == ConnectFailed(f) \/ Logged(f, "process_single_email")

C8_Isolated ==
  \A f \in Files :
    /\ (tpc[f] = "returned" /\ ret[f] = None) => OwnFailure(f)
    /\ (tpc[f] = "returned" /\ ret[f] # None) => ~OwnFailure(f)
    /\ (Aggregated /\ Started(f)) => (InBatch(f) <=> ret[f] # None)

\* C8: tasks fail alone, and under fairness every task and the run end
C8_SiblingIsolation ==
  /\ []C8_Isolated
  /\ \A f \in Files : (tpc[f] \in {"detect", "audit", "commit"}) ~> (tpc[f] = "returned")
  /\ (pc = "pool") ~> (pc = "done")

C8_Witness ==
  /\ pc = "done"
  /\ \E f, g \in Files :
       /\ Started(f) /\ ret[f] = None /\ ~InBatch(f)
       /\ InBatch(g)

(***************************************************************************)
(* C9. Phase barrier.  No task of phase 2 has started while the phase-1    *)
(* loop has a file left; at most one message is inside phase 1 at a time;  *)
(* the functions that call the classifier or the entity extractor are      *)
(* called by the main process only, the task functions by workers only.    *)
(***************************************************************************)
UsesModel == {"classify_email_intent", "extract_context", "handle_multi_request"}

\* C9: phase 2 starts after phase 1 has ended for every file
C9_PhaseBarrier ==
  /\ \A f \in Files :
       Started(f) =>
         /\ pc # "phase1"
         /\ \A g \in Files : phase1[g] \in {"skipped", "preprocessed"}
  /\ Cardinality({f \in Files : phase1[f] = "running"}) <= 1
  /\ \A f \in Files : phase1[f] = "running" => (pc = "phase1" /\ Current = f)
  /\ \A c \in calls :
       /\ c.fn \in UsesModel => c.caller = "main"
       /\ c.caller = "worker" => Started(c.file)

C9_Witness ==
  /\ pc = "pool"
  /\ Cardinality(Running) = 2
  /\ \E f \in Files :
       phase1[f] = "preprocessed" /\ Call("handle_multi_request", f, "main") \in calls

(***************************************************************************)
(* C10. Every skip is logged.  When a run has ended, every listed file     *)
(* whose message is not in the output batch is named by an error event of  *)
(* the log.                                                                *)
(***************************************************************************)
C10_EverySkipLogged ==
  pc = "done" =>
    \A f \in Listed :
      ~InBatch(f) => \E e \in log : f \in e.files

(***************************************************************************)
(* C11. Batch-level failure.  When the input directory cannot be listed    *)
(* the run ends at once and returns the empty list: no stage is called, no *)
(* task is started, the store keeps exactly the rows it had, the audit log *)
(* gains no line, results.json is not written; the failure is logged.      *)
(***************************************************************************)
C11_UnreadableDirectory ==
  Listed = {} =>
    /\ pc \in {"start", "done"}
    /\ calls = {}
    /\ \A f \in Files : phase1[f] = "pending" /\ tpc[f] = "idle" /\ conn[f] = "none"
    /\ Len(store) = prior
    /\ audit = <<>>
    /\ results = <<>>
    /\ results_json = <<>>
    /\ pc = "done" =>
         /\ returned = <<>>
         /\ Event({}, "process_email_pipeline") \in log

C11_Witness ==
  /\ pc = "done"
  /\ Listed = {}
  /\ prior > 0
  /\ returned = <<>>

(***************************************************************************)
(* C12. Audit log per processed message.  When a run has ended, the audit  *)
(* log has gained exactly one line for each message of the output batch    *)
(* and no line for a message that is not in it.  (The other half of the    *)
(* claim, that existing lines are never changed, is C12_AppendOnly.)       *)
(***************************************************************************)
AuditLines(f) == {i \in 1..Len(audit) : audit[i].filename = f}

\* C12: one audit line per message of the output batch, none for the others
C12_AuditPerMessage ==
  pc = "done" =>
    \A f \in Files :
      Cardinality(AuditLines(f)) = IF InBatch(f) THEN 1 ELSE 0

\* the audit log only grows: every step keeps its lines as a prefix
C12_AppendOnly ==
  [][/\ Len(audit') >= Len(audit)
     /\ SubSeq(audit', 1, Len(audit)) = audit]_vars

(***************************************************************************)
(* C13. Priority scoring.  For every category and body, the priority that  *)
(* assign_priority_and_confidence returns is the base of the category (3,  *)
(* 2, 1 for the three request types, 1 for any other category), plus 1     *)
(* when the lower-cased body contains "urgent" or "immediate": one keyword *)
(* or both add 1, and a keyword in the subject adds nothing.               *)
(***************************************************************************)
BasePriority(category) ==
  IF category = "Payment Inquiry" THEN 3
  ELSE IF category = "Loan Request" THEN 2
  ELSE 1

\* a keyword occurs in the body, in letters of either case
HasKeyword(body) ==
  \E w \in {urgent, immediate}, i \in 0..Len(body) :
    /\ i + Len(w) <= Len(body)
    /\ \A j \in 1..Len(w) : LowerChar(body[i + j]) = w[j]

\* C13: priority = base(category) + 1 with a keyword in the body, else base
C13_PriorityScoring ==
  Returned("assign_priority_and_confidence") =>
    /\ got.value.request_type = given.intent.request_type
    /\ got.value.priority =
         BasePriority(given.intent.request_type)
         + (IF HasKeyword(given.email_data.body) THEN 1 ELSE 0)

C13_Witness ==
  /\ Returned("assign_priority_and_confidence")
  /\ given.intent.request_type \notin {REQUEST_TYPES[i] : i \in 1..Len(REQUEST_TYPES)}
  /\ given.email_data.body = urgent \o <<" ">> \o immediate
  /\ got.value.priority = 2

(***************************************************************************)
(* C14. Routing totality.  route_request returns the result it was given   *)
(* with a routing team added and nothing removed; the team is the one      *)
(* mapped to the category of the result for the three request types and    *)
(* "Default Team" for any other category.                                  *)
(***************************************************************************)
Team(category) ==
  IF category = "Payment Inquiry" THEN "Finance Team"
  ELSE IF category = "Loan Request" THEN "Loan Processing Team"
  ELSE IF category = "Account Update" THEN "Customer Support Team"
  ELSE "Default Team"

\* C14: every routed result carries the team of its category
C14_RoutingTotal ==
  Returned("route_request") =>
    /\ DOMAIN got.value = DOMAIN given.result \cup {"routing"}
    /\ \A k \in DOMAIN given.result : got.value[k] = given.result[k]
    /\ got.value.routing = [team |-> Team(given.result.intent.request_type)]

C14_Witness ==
  /\ Returned("route_request")
  /\ given.result.intent.request_type = "Complaint"
  /\ got.value.filename = given.result.filename
  /\ got.value.routing.team = "Default Team"

(***************************************************************************)
(* C15. Fingerprint determinism.  Two records with the same subject and    *)
(* the same body get the same fingerprint, whatever their filenames and    *)
(* attachments; two calls on one record return the same fingerprint.       *)
(***************************************************************************)
C15_FingerprintDeterminism ==
  Returned("compute_email_hash") =>
    /\ (/\ given.email_data.subject = given.other.subject
        /\ given.email_data.body = given.other.body)
       => got.value[1] = got.value[2]
    /\ given.email_data = given.other => got.value[1] = got.value[2]

C15_Witness ==
  /\ Returned("compute_email_hash")
  /\ given.email_data.subject = given.other.subject
  /\ given.email_data.body = given.other.body
  /\ given.email_data.filename # given.other.filename
  /\ given.email_data.attachments # given.other.attachments
  /\ got.value[1] = got.value[2]

(***************************************************************************)
(* C16. Connection scoping.  Every task that has ended and had opened a    *)
(* store connection has committed and closed it, whichever step of the     *)
(* task failed after the connection was opened.                            *)
(***************************************************************************)
C16_ConnectionScoped ==
  \A f \in Files :
    (tpc[f] = "returned" /\ conn[f] # "none") =>
      /\ conn[f] = "closed"
      /\ pending[f] = <<>>

(***************************************************************************)
(* C17. Decode failures are tolerated.  extract_email_components called on *)
(* a file that can be read returns a record, not None, whose body is the   *)
(* concatenation of the text/plain payloads with the empty string in place *)
(* of each payload that does not decode.                                   *)
(***************************************************************************)
RECURSIVE DecodedText(_)
DecodedText(parts) ==
  IF parts = <<>> THEN <<>>
  ELSE (IF Head(parts).ctype = "text/plain" /\ Head(parts).decodable
        THEN Head(parts).payload ELSE <<>>)
       \o DecodedText(Tail(parts))

\* C17: a part that does not decode contributes "" and the message is kept
C17_DecodeTolerated ==
  (Returned("extract_email_components") /\ given.readable) =>
    /\ got.value # None
    /\ got.value.body = DecodedText(given.file.parts)

(***************************************************************************)
(* C18. Primary intent selection.  The primary intent that                 *)
(* handle_multi_request returns is the result of the non-empty segment of  *)
(* maximum confidence, the earliest one when several share the maximum,    *)
(* and it is absent exactly when the body has no non-empty segment.        *)
(***************************************************************************)
\* the non-empty paragraphs of the body, in body order
Paragraphs(body) == SelectSeq(split(body), strip_nonempty)

SegmentResult(segment) ==
  [segment |-> segment,
   request_type |-> CLASSIFIER(segment, REQUEST_TYPES).labels[1],
   confidence |-> CLASSIFIER(segment, REQUEST_TYPES).scores[1]]

\* primary is the first result of maximum confidence; None without segment
IsFirstMax(primary, segments) ==
  /\ primary = None <=> segments = <<>>
  /\ primary # None =>
       \E k \in 1..Len(segments) :
         /\ primary = SegmentResult(segments[k])
         /\ \A j \in 1..Len(segments) :
              SegmentResult(segments[j]).confidence <= primary.confidence
         /\ \A j \in 1..(k - 1) :
              SegmentResult(segments[j]).confidence < primary.confidence

C19_Stalled ==
  stage = "hung" =>
    /\ pc = "phase1"
    /\ \A f \in Files : tpc[f] = "idle" /\ conn[f] = "none" /\ ret[f] = None
    /\ Len(store) = prior
    /\ audit = <<>>
    /\ results = <<>>
    /\ results_json = <<>>

\* C19: a hung run never leaves phase 1 and never starts phase 2
C19_HangStallsBatch ==
  /\ []C19_Stalled
  /\ [][stage = "hung" => stage' = "hung"]_vars

C19_Witness ==
  /\ stage = "hung"
  /\ \E f \in Files : phase1[f] = "preprocessed"
  /\ preprocessed_data # <<>>
  /\ \A f \in Files : tpc[f] = "idle"

(***************************************************************************)
(* C20. Output order.  The output batch holds, in the order of the         *)
(* directory listing and each at most once, exactly the listed messages    *)
(* that passed phase 1 and whose task returned a result, whatever order    *)
(* the tasks committed in.                                                 *)
(***************************************************************************)
\* position of file f in the listing
Position(f) == CHOOSE i \in 1..Len(filepaths) : filepaths[i] = f

\* C20: the output batch is in listing order
C20_OutputOrder ==
  Aggregated =>
    /\ \A i, j \in 1..Len(results) :
         i < j => Position(results[i].filename) < Position(results[j].filename)
    /\ \A f \in Files :
         InBatch(f) <=> (f \in Listed /\ phase1[f] = "preprocessed" /\ ret[f] # None)

C20_Witness ==
  /\ pc = "done"
  /\ Len(results) = 2
  /\ Position(results[1].filename) < Position(results[2].filename)
  /\ \E i, j \in 1..Len(RunRows) :
       /\ i < j
       /\ RunRows[i].filename = results[2].filename
       /\ RunRows[j].filename = results[1].filename

(***************************************************************************)
(* C21. Output-write failure.  When writing results.json fails, the run    *)
(* returns the empty list and results.json keeps its content, while the    *)
(* step leaves the store and the audit log as phase 2 left them: the rows  *)
(* committed and the lines appended for the batch stay.                    *)
(***************************************************************************)
\* the listing succeeded and the except clause of the pipeline has run
WriteFailed ==
  /\ pc = "done"
  /\ filepaths # <<>>
  /\ Event({}, "process_email_pipeline") \in log

C21_Returned ==
  WriteFailed =>
    /\ returned = <<>>
    /\ results_json = <<>>
    /\ \A f \in Files :
         (conn[f] = "closed" /\ ~Logged(f, "store_email_data"))
           => RowsFor(f, task[f].email_hash) # {}
    /\ \A f \in Files :
         (PastDetect(f) /\ ~Logged(f, "log_classification_decision"))
           => \E i \in 1..Len(audit) : audit[i].filename = f

\* C21: a failed write returns [] and rolls nothing back
C21_WriteFailureKeepsEffects ==
  /\ []C21_Returned
  /\ [][pc = "write" => (store' = store /\ audit' = audit)]_vars

C21_Witness ==
  /\ WriteFailed
  /\ results # <<>>
  /\ returned = <<>>
  /\ Len(store) > prior
  /\ audit # <<>>

(***************************************************************************)
(* C22. Fingerprint boundary ambiguity.  Two messages whose (subject,      *)
(* body) pairs differ and whose concatenations subject + body are equal    *)
(* get the same fingerprint, and the one whose existence check runs when a *)
(* row with that fingerprint is committed is reported as a duplicate, in   *)
(* its task and in the result it returns.                                  *)
(***************************************************************************)
\* the messages of files f and g differ and concatenate to the same text
Ambiguous(f, g) ==
  /\ <<mail[f].subject, BodyOf(mail[f].parts)>>
       # <<mail[g].subject, BodyOf(mail[g].parts)>>
  /\ mail[f].subject \o BodyOf(mail[f].parts)
       = mail[g].subject \o BodyOf(mail[g].parts)

\* C22: an ambiguous pair shares its fingerprint and the later one is a
\* duplicate
C22_BoundaryCollision ==
  \A f, g \in Files :
    (f # g /\ Ambiguous(f, g)) =>
      /\ (Started(f) /\ Started(g)) => task[f].email_hash = task[g].email_hash
      /\ (PastDetect(g) /\ seen[g]) =>
           /\ task[g].is_duplicate
           /\ ret[g] # None => ret[g].is_duplicate

\* the part of C22 that holds: the shared fingerprint, and the duplicate
\* report of every existence query that did not raise
C22_CollisionWhenQueried ==
  \A f, g \in Files :
    (f # g /\ Ambiguous(f, g)) =>
      /\ (Started(f) /\ Started(g)) => task[f].email_hash = task[g].email_hash
      /\ (PastDetect(g) /\ seen[g] /\ ~Logged(g, "detect_duplicates")) =>
           /\ task[g].is_duplicate
           /\ ret[g] # None => ret[g].is_duplicate

\* reached: the second message is reported as a duplicate of the first
C22_CollisionReached ==
  /\ pc = "done"
  /\ prior = 0
  /\ \E f, g \in Files :
       /\ f # g /\ Ambiguous(f, g)
       /\ InBatch(f) /\ InBatch(g)
       /\ ~Entry(f).is_duplicate /\ Entry(g).is_duplicate

====
